---- MODULE Spec2Model ----
(***************************************************************************)
(* Model of sccompPy's utilities.py: the draw reshaper                     *)
(* (draws_to_tibble_x_y), the summary reshaper (summary_to_tibble), the    *)
(* contrast evaluator (mutate_from_expr_list) and the orchestrator         *)
(* (get_abundance_contrast_draws).                                         *)
(*                                                                         *)
(* Strings are sequences of one-character strings, so that the regular     *)
(* expressions of the source act on them character by character.           *)
(* A table cell is NaN (the empty sequence), a number <<"#", n>>, or a     *)
(* string.                                                                 *)
(***************************************************************************)
EXTENDS Integers, Sequences, FiniteSets, TLC

VARIABLES op, args, result

vars == <<op, args, result>>

(***************************************************************************)
(* Bounds of the model                                                     *)
(***************************************************************************)
MaxNameLen == 3
MaxIdx == 10
MaxChains == 2
MaxIter == 3
MaxDim == 2
MaxPermRows == 4
MaxRows == 2
MaxFormulas == 2

(***************************************************************************)
(* Characters                                                              *)
(***************************************************************************)
DigitChars == <<"0", "1", "2", "3", "4", "5", "6", "7", "8", "9">>

Digit == {"0", "1", "2", "3", "4", "5", "6", "7", "8", "9"}

Digit19 == Digit \ {"0"}

Lower == {"a", "b", "c", "d", "e", "f", "g", "h", "i", "j", "k", "l", "m",
          "n", "o", "p", "q", "r", "s", "t", "u", "v", "w", "x", "y", "z"}

Upper == {"A", "B", "C", "D", "E", "F", "G", "H", "I", "J", "K", "L", "M",
          "N", "O", "P", "Q", "R", "S", "T", "U", "V", "W", "X", "Y", "Z"}

\* the characters the model uses, in code-point order
Ascii == <<" ", "%", "(", ")", "*", "+", ",", "-", ".", "/",
           "0", "1", "2", "3", "4", "5", "6", "7", "8", "9",
           "A", "B", "C", "D", "E", "F", "G", "H", "I", "J", "K", "L", "M",
           "N", "O", "P", "Q", "R", "S", "T", "U", "V", "W", "X", "Y", "Z",
           "[", "]", "_", "BACKQUOTE",
           "a", "b", "c", "d", "e", "f", "g", "h", "i", "j", "k", "l", "m",
           "n", "o", "p", "q", "r", "s", "t", "u", "v", "w", "x", "y", "z">>

Ord(ch) == CHOOSE i \in 1..Len(Ascii) : Ascii[i] = ch

NaN == <<>>

Num(n) == <<"#", n>>

IsNum(cell) == Len(cell) = 2 /\ cell[1] = "#"

IsNaN(cell) == cell = NaN

\* a call's outcome: a returned value or a raised exception
Ok(v) == [ok |-> TRUE, val |-> v, err |-> "none"]

Raise(e) == [ok |-> FALSE, val |-> <<>>, err |-> e]

\* a sequence built element by element, as a concrete list
list(f) == f \o <<>>

RECURSIVE RunLen(_, _, _)
\* length of the longest run of characters of cls that starts at s[i]
RunLen(s, i, cls) ==
  IF i > Len(s) \/ s[i] \notin cls THEN 0 ELSE 1 + RunLen(s, i + 1, cls)

CharAt(s, i) == IF i >= 1 /\ i <= Len(s) THEN s[i] ELSE ""

RECURSIVE int(_)
\* int("12") = 12
int(s) ==
  IF Len(s) = 0 THEN 0
  ELSE 10 * int(SubSeq(s, 1, Len(s) - 1))
       + ((CHOOSE d \in 1..10 : DigitChars[d] = s[Len(s)]) - 1)

RECURSIVE str(_)
\* str(12) = "12", the f-string formatting of a non-negative integer
str(n) ==
  IF n < 10 THEN <<DigitChars[n + 1]>>
  ELSE Append(str(n \div 10), DigitChars[(n % 10) + 1])

(***************************************************************************)
(* Index extractor: the pattern of draws_to_tibble_x_y                     *)
(*   ([1-9]+)?\.?([a-zA-Z0-9_\.]+)\[([0-9]+),([0-9]+)                      *)
(***************************************************************************)
\* the class without the dot
VarClass_NoDot == Lower \cup Upper \cup Digit \cup {"_"}

VarClass == Lower \cup Upper \cup Digit \cup {"_", "."}

\* \[([0-9]+),([0-9]+) matched at position p
TailMatch(s, p) ==
  LET d1 == RunLen(s, p + 1, Digit)
      d2 == RunLen(s, p + 2 + d1, Digit)
  IN  /\ CharAt(s, p) = "["
      /\ d1 >= 1
      /\ CharAt(s, p + 1 + d1) = ","
      /\ d2 >= 1

\* the ways the pattern matches at s0: k characters of chain prefix,
\* d dots, l characters of variable
PatternMatches(s, s0) ==
  UNION {UNION {{<<k, d, l>> : l \in {m \in 1..RunLen(s, s0 + k + d, VarClass) :
                                        TailMatch(s, s0 + k + d + m)}} :
                  d \in {e \in {0, 1} : e = 1 => CharAt(s, s0 + k) = "."}} :
           k \in 0..RunLen(s, s0, Digit19)}

\* the order in which a backtracking matcher tries them: greedy quantifiers
\* first try the longest prefix, then the dot, then the longest variable
TriedBefore(c1, c2) ==
  \/ c1[1] > c2[1]
  \/ c1[1] = c2[1] /\ c1[2] > c2[2]
  \/ c1[1] = c2[1] /\ c1[2] = c2[2] /\ c1[3] > c2[3]

pattern(s, s0) ==
  CHOOSE c \in PatternMatches(s, s0) :
    \A c2 \in PatternMatches(s, s0) : c2 = c \/ TriedBefore(c, c2)

\* Series.str.extract(pattern) on one string: the groups of the first match
\* (re.search), NaN for every group when nothing matches
str_extract(s) ==
  LET starts == {s0 \in 1..Len(s) : PatternMatches(s, s0) # {}}
      groups(s0, c) ==
        LET pv == s0 + c[1] + c[2]
            px == pv + c[3] + 1
            d1 == RunLen(s, px, Digit)
            py == px + d1 + 1
            d2 == RunLen(s, py, Digit)
        IN  [chain    |-> IF c[1] = 0 THEN NaN ELSE SubSeq(s, s0, s0 + c[1] - 1),
             variable |-> SubSeq(s, pv, pv + c[3] - 1),
             x        |-> SubSeq(s, px, px + d1 - 1),
             y        |-> SubSeq(s, py, py + d2 - 1)]
      first(s0) == groups(s0, pattern(s, s0))
  IN  IF starts = {} THEN [chain |-> NaN, variable |-> NaN, x |-> NaN, y |-> NaN]
      ELSE first(CHOOSE i \in starts : \A j \in starts : i <= j)

\* Series.astype(int) on one cell of extracted text
astype_int(cell) == IF IsNaN(cell) THEN Raise("ValueError") ELSE Ok(int(cell))

\* lines 28-33 on one parameter name
extract_indices(parameter) ==
  LET typed(g, xi, yi) ==
        IF ~xi.ok THEN xi
        ELSE IF ~yi.ok THEN yi
        ELSE Ok([variable |-> g.variable, x |-> xi.val, y |-> yi.val])
      groups(g) == typed(g, astype_int(g.x), astype_int(g.y))
  IN  groups(str_extract(parameter))

(***************************************************************************)
(* The column and variable names the source spells out                     *)
(***************************************************************************)
\* "chain__"
N_chain__ == <<"c", "h", "a", "i", "n", "_", "_">>

\* "iter__"
N_iter__ == <<"i", "t", "e", "r", "_", "_">>

\* "draw__"
N_draw__ == <<"d", "r", "a", "w", "_", "_">>

\* "parameter"
N_parameter == <<"p", "a", "r", "a", "m", "e", "t", "e", "r">>

\* "value"
N_value == <<"v", "a", "l", "u", "e">>

\* "chain"
N_chain == <<"c", "h", "a", "i", "n">>

\* "variable"
N_variable == <<"v", "a", "r", "i", "a", "b", "l", "e">>

\* "beta"
N_beta == <<"b", "e", "t", "a">>

\* "random_effect"
N_random_effect == <<"r", "a", "n", "d", "o", "m", "_", "e", "f", "f", "e", "c", "t">>

\* "random_effect_2"
N_random_effect_2 == <<"r", "a", "n", "d", "o", "m", "_", "e", "f", "f", "e", "c", "t", "_", "2">>

\* "C"
N_C == <<"C">>

\* "M"
N_M == <<"M">>

\* ".value"
N_dot_value == <<".", "v", "a", "l", "u", "e">>

\* ".variable"
N_dot_variable == <<".", "v", "a", "r", "i", "a", "b", "l", "e">>

\* "Mean"
N_Mean == <<"M", "e", "a", "n">>

\* "N_Eff"
N_N_Eff == <<"N", "_", "E", "f", "f">>

\* "R_hat"
N_R_hat == <<"R", "_", "h", "a", "t">>

\* "Rhat"
N_Rhat == <<"R", "h", "a", "t">>

\* "khat"
N_khat == <<"k", "h", "a", "t">>

\* "R_k_hat"
N_R_k_hat == <<"R", "_", "k", "_", "h", "a", "t">>

\* "lp__"
N_lp__ == <<"l", "p", "_", "_">>

\* "StdDev"
N_StdDev == <<"S", "t", "d", "D", "e", "v">>

(***************************************************************************)
(* Inputs of the index extractor                                           *)
(***************************************************************************)
NameChars == {"a", "1", "0", "_", "."}

RECURSIVE SeqsUpTo(_, _)
SeqsUpTo(S, n) ==
  IF n = 0 THEN {<<>>}
  ELSE LET shorter == SeqsUpTo(S, n - 1)
       IN  shorter \cup {Append(s, e) : s \in shorter, e \in S}

VarNames == SeqsUpTo(NameChars, MaxNameLen) \ {<<>>}

\* the indices tried: the smallest and the largest, of one digit and of two
Indices == {0, 1, MaxIdx - 1, MaxIdx}

\* f"{v}[{r},{c}]"
ParameterName(v, r, c) == v \o <<"[">> \o str(r) \o <<",">> \o str(c) \o <<"]">>

(***************************************************************************)
(* Tables: [columns |-> sequence of names, data |-> sequence of rows],     *)
(* a row being the sequence of its cells in column order.                  *)
(***************************************************************************)
Range(s) == {s[i] : i \in 1..Len(s)}

HasCol(t, name) == name \in Range(t.columns)

ColIdx(t, name) == CHOOSE i \in 1..Len(t.columns) : t.columns[i] = name

\* the cell of column name in row r of table t
At(t, r, name) == t.data[r][ColIdx(t, name)]

RECURSIVE StrLess(_, _)
\* Python's string order: by code point, a proper prefix first
StrLess(a, b) ==
  IF Len(b) = 0 THEN FALSE
  ELSE IF Len(a) = 0 THEN TRUE
  ELSE IF a[1] # b[1] THEN Ord(a[1]) < Ord(b[1])
  ELSE StrLess(Tail(a), Tail(b))

\* the order of two cells of one column; NaN sorts last
CellLess(a, b) ==
  IF IsNaN(a) THEN FALSE
  ELSE IF IsNaN(b) THEN TRUE
  ELSE IF IsNum(a) THEN a[2] < b[2]
  ELSE StrLess(a, b)

RECURSIVE RowLess(_, _, _)
\* lexicographic order of two rows on the cells at positions idxs
RowLess(r1, r2, idxs) ==
  IF Len(idxs) = 0 THEN FALSE
  ELSE IF CellLess(r1[idxs[1]], r2[idxs[1]]) THEN TRUE
  ELSE IF CellLess(r2[idxs[1]], r1[idxs[1]]) THEN FALSE
  ELSE RowLess(r1, r2, Tail(idxs))

\* r put before the rows that sort equal to it: a sort that is not stable
InsertBeforeEqual(sorted, r, idxs) ==
  LET later == {i \in 1..Len(sorted) : ~RowLess(sorted[i], r, idxs)}
      p     == IF later = {} THEN Len(sorted) + 1
               ELSE CHOOSE i \in later : \A j \in later : i <= j
  IN  SubSeq(sorted, 1, p - 1) \o <<r>> \o SubSeq(sorted, p, Len(sorted))

\* r put behind every row that does not sort after it
InsertStable(sorted, r, idxs) ==
  LET later == {i \in 1..Len(sorted) : RowLess(r, sorted[i], idxs)}
      p     == IF later = {} THEN Len(sorted) + 1
               ELSE CHOOSE i \in later : \A j \in later : i <= j
  IN  SubSeq(sorted, 1, p - 1) \o <<r>> \o SubSeq(sorted, p, Len(sorted))

RECURSIVE StableSort(_, _)
StableSort(rows, idxs) ==
  IF Len(rows) = 0 THEN <<>>
  ELSE InsertStable(StableSort(SubSeq(rows, 1, Len(rows) - 1), idxs),
                    rows[Len(rows)], idxs)

\* DataFrame.sort_values(by = [several columns]): a stable lexicographic
\* sort (pandas sorts several keys with a stable lexsort)
sort_values(t, by) ==
  [t EXCEPT !.data = StableSort(t.data, list([i \in 1..Len(by) |-> ColIdx(t, by[i])]))]

RECURSIVE FilterSeq(_, _)
\* the elements of s at the positions in keep, in order
FilterSeq(s, keep) ==
  IF Len(s) = 0 THEN <<>>
  ELSE FilterSeq(SubSeq(s, 1, Len(s) - 1), keep)
       \o (IF Len(s) \in keep THEN <<s[Len(s)]>> ELSE <<>>)

RECURSIVE Concat(_)
\* the concatenation of a sequence of sequences
Concat(ss) == IF Len(ss) = 0 THEN <<>> ELSE ss[1] \o Concat(Tail(ss))

\* df[[c1, c2, ...]]: KeyError when a column is absent
select_columns(t, cols) ==
  IF \E i \in 1..Len(cols) : ~HasCol(t, cols[i]) THEN Raise("KeyError")
  ELSE Ok([columns |-> cols,
           data |-> list([r \in 1..Len(t.data) |->
                       list([i \in 1..Len(cols) |-> t.data[r][ColIdx(t, cols[i])]])])])

\* df[name] = cells: replaces the column or appends it
set_column(t, name, cells) ==
  IF HasCol(t, name)
  THEN [t EXCEPT !.data = list([r \in 1..Len(t.data) |->
                             [t.data[r] EXCEPT ![ColIdx(t, name)] = cells[r]]])]
  ELSE [columns |-> Append(t.columns, name),
        data |-> list([r \in 1..Len(t.data) |-> Append(t.data[r], cells[r])])]

\* re.search / "in" for a pattern without metacharacters: substring test
Contains(s, sub) ==
  \E i \in 1..(Len(s) - Len(sub) + 1) : SubSeq(s, i, i + Len(sub) - 1) = sub

(***************************************************************************)
(* The inference engine's fit object                                       *)
(*   variables: the Stan variables, each a name and its dimensions         *)
(*   rows:      the (chain, iteration) pairs in the order of the draw      *)
(*              table                                                      *)
(*   diagnostics: the diagnostic columns the summary table has             *)
(***************************************************************************)
\* the columns of one Stan variable, column-major like the engine's output
VariableColumns(v) ==
  IF Len(v.dims) = 0 THEN <<v.name>>
  ELSE IF Len(v.dims) = 1
  THEN [i \in 1..v.dims[1] |-> v.name \o <<"[">> \o str(i) \o <<"]">>]
  ELSE [k \in 1..(v.dims[1] * v.dims[2]) |->
          ParameterName(v.name, ((k - 1) % v.dims[1]) + 1, ((k - 1) \div v.dims[1]) + 1)]

\* fit.stan_variables().keys()
stan_variables_keys(fit) == [i \in 1..Len(fit.variables) |-> fit.variables[i].name]

\* the value the engine drew for a column at (chain, iteration)
EngineValue(fit, vi, ci, row) == 1000 * vi + 100 * row[1] + 10 * row[2] + ci

MethodVars == {N_chain__, N_iter__, N_draw__}

\* fit.draws_pd(vars): the draw table, one row per draw, with the sampler's
\* chain__, iter__, draw__ columns and the columns of the Stan variables
\* listed; ValueError for an unknown variable
draws_pd(fit, names) ==
  LET wanted == {i \in 1..Len(fit.variables) : fit.variables[i].name \in Range(names)}
      cols(i) == VariableColumns(fit.variables[i])
  IN  IF \E n \in Range(names) \ MethodVars :
           \A i \in 1..Len(fit.variables) : fit.variables[i].name # n
      THEN Raise("ValueError")
      ELSE Ok([columns |-> <<N_chain__, N_iter__, N_draw__>>
                           \o Concat([i \in 1..Len(fit.variables) |->
                                        IF i \in wanted THEN cols(i) ELSE <<>>]),
               data |-> list([d \in 1..Len(fit.rows) |->
                           <<Num(fit.rows[d][1]), Num(fit.rows[d][2]), Num(d)>>
                           \o Concat([i \in 1..Len(fit.variables) |->
                                IF i \in wanted
                                THEN [c \in 1..Len(cols(i)) |->
                                        Num(EngineValue(fit, i, c, fit.rows[d]))]
                                ELSE <<>>])])])

(***************************************************************************)
(* draws_to_tibble_x_y                                                     *)
(***************************************************************************)
\* par_names of line 19 (computed, never used)
par_names(fit, par) ==
  FilterSeq(stan_variables_keys(fit),
            {i \in 1..Len(fit.variables) : Contains(fit.variables[i].name, par)})

\* DataFrame.melt: for each value column in turn, one record per row
melt(df, id_vars, value_vars, var_name, value_name) ==
  [columns |-> id_vars \o <<var_name, value_name>>,
   data |-> Concat([k \in 1..Len(value_vars) |->
              list([r \in 1..Len(df.data) |->
                 [i \in 1..Len(id_vars) |-> df.data[r][ColIdx(df, id_vars[i])]]
                 \o <<value_vars[k], df.data[r][ColIdx(df, value_vars[k])]>>])])]

\* lines 28-29: the four groups of the pattern become columns
extract_columns(t, x, y) ==
  LET columns(g) ==
        set_column(
          set_column(
            set_column(
              set_column(t, N_chain, [r \in 1..Len(t.data) |-> g[r].chain]),
              N_variable, [r \in 1..Len(t.data) |-> g[r].variable]),
            x, [r \in 1..Len(t.data) |-> g[r].x]),
          y, [r \in 1..Len(t.data) |-> g[r].y])
  IN  columns(list([r \in 1..Len(t.data) |->
                      str_extract(t.data[r][ColIdx(t, N_parameter)])]))

\* lines 32-33: Series.astype(int) raises on a missing value
astype_int_column(t, name) ==
  LET cells == list([r \in 1..Len(t.data) |-> astype_int(t.data[r][ColIdx(t, name)])])
  IN  IF \E r \in 1..Len(t.data) : ~cells[r].ok THEN Raise("ValueError")
      ELSE Ok(set_column(t, name, [r \in 1..Len(t.data) |-> Num(cells[r].val)]))

\* line 37: groupby(keys).apply(draw__ = range(1, len(df) + 1))
\* .reset_index(drop=True); the groups come in key order, each keeps the
\* order of its rows, and rows with a missing key belong to no group
groupby_assign_draw(t, keys) ==
  LET idxs   == list([i \in 1..Len(keys) |-> ColIdx(t, keys[i])])
      kept   == FilterSeq(t.data, {r \in 1..Len(t.data) :
                                     \A i \in 1..Len(idxs) : ~IsNaN(t.data[r][idxs[i]])})
      sorted == StableSort(kept, idxs)
      Same(a, b) == \A i \in 1..Len(idxs) : a[idxs[i]] = b[idxs[i]]
      firsts == {r \in 1..Len(sorted) : r = 1 \/ ~Same(sorted[r - 1], sorted[r])}
      rank(r) == r + 1 - (CHOOSE f \in firsts : f <= r /\ \A f2 \in firsts : f2 <= r => f2 <= f)
  IN  [t EXCEPT !.data = list([r \in 1..Len(sorted) |->
                            [sorted[r] EXCEPT ![ColIdx(t, N_draw__)] = Num(rank(r))]])]

draws_to_tibble_x_y(fit, par, x, y) ==
  LET \* lines 25-32
      draws_long(draws_df) ==
        IF ~draws_df.ok THEN draws_df
        ELSE astype_int_column(
               extract_columns(
                 melt(draws_df.val, <<N_chain__, N_iter__, N_draw__>>,
                      FilterSeq(draws_df.val.columns,
                                {i \in 1..Len(draws_df.val.columns) :
                                   Contains(draws_df.val.columns[i], N_beta)}),
                      N_parameter, N_value),
                 x, y),
               x)
      \* line 33
      typed(long) == IF ~long.ok THEN long ELSE astype_int_column(long.val, y)
      \* lines 36-40
      selected(long) ==
        IF ~long.ok THEN long
        ELSE select_columns(
               groupby_assign_draw(
                 sort_values(long.val, <<N_variable, x, y, N_chain__>>),
                 <<N_variable, x, y>>),
               <<N_chain__, N_iter__, N_draw__, N_variable, x, y, N_value>>)
      \* line 41
      filtered(long) ==
        IF ~long.ok THEN long
        ELSE Ok([long.val EXCEPT !.data =
                   FilterSeq(long.val.data,
                             {r \in 1..Len(long.val.data) :
                                long.val.data[r][ColIdx(long.val, N_variable)] = par})])
  IN  filtered(selected(typed(draws_long(
        draws_pd(fit, <<N_beta, N_chain__, N_iter__, N_draw__>>)))))

(***************************************************************************)
(* summary_to_tibble                                                       *)
(***************************************************************************)
\* f"{p}%"
prob_col(p) == Append(str(p), "%")

\* fit.summary(probs): one row per parameter (and lp__), indexed by the
\* parameter's name, with the columns Mean, StdDev, one per quantile, and
\* the diagnostics the engine reports
summary(fit, probs) ==
  LET index == <<N_lp__>> \o Concat([i \in 1..Len(fit.variables) |->
                                       VariableColumns(fit.variables[i])])
      columns == <<N_Mean, N_StdDev>> \o [i \in 1..Len(probs) |-> prob_col(probs[i])]
                 \o fit.diagnostics
  IN  [index |-> index,
       columns |-> columns,
       data |-> list([r \in 1..Len(index) |->
                   list([c \in 1..Len(columns) |-> Num(10 * r + c)])])]

RECURSIVE re_split(_, _)
\* re.split on single-character separators: the pieces between them
re_split(s, seps) ==
  LET at == {i \in 1..Len(s) : s[i] \in seps}
  IN  IF at = {} THEN <<s>>
      ELSE LET i == CHOOSE k \in at : \A j \in at : k <= j
           IN  <<SubSeq(s, 1, i - 1)>> \o re_split(SubSeq(s, i + 1, Len(s)), seps)

\* lines 66-72
split_variable_name(var_name, y) ==
  LET pieces == re_split(var_name, {"[", "]", ",", " "})
      parts  == FilterSeq(pieces, {i \in 1..Len(pieces) : pieces[i] # <<>>})
  IN  IF y # NaN THEN SubSeq(parts, 1, IF Len(parts) < 3 THEN Len(parts) ELSE 3)
      ELSE SubSeq(parts, 1, IF Len(parts) < 2 THEN Len(parts) ELSE 2)

\* pd.DataFrame(list of lists, columns = names): short lists are padded with
\* missing values; ValueError when the longest list has not len(names) items
DataFrame(lists, names) ==
  LET width == IF Len(lists) = 0 THEN Len(names)
               ELSE CHOOSE n \in {Len(lists[i]) : i \in 1..Len(lists)} :
                      \A i \in 1..Len(lists) : Len(lists[i]) <= n
  IN  IF width # Len(names) THEN Raise("ValueError")
      ELSE Ok([columns |-> names,
               data |-> list([r \in 1..Len(lists) |->
                           list([c \in 1..width |->
                              IF c <= Len(lists[r]) THEN lists[r][c] ELSE NaN])])])

\* y is None (NaN here) or the name of the column of the second index
summary_to_tibble(fit, par, x, y, probs) ==
  LET \* line 54
      filtered_summary(full) ==
        LET keep == {r \in 1..Len(full.index) : Contains(full.index[r], par)}
        IN  [index |-> FilterSeq(full.index, keep),
             columns |-> full.columns,
             data |-> FilterSeq(full.data, keep)]
      \* lines 57-58
      prob_cols == list([i \in 1..Len(probs) |-> prob_col(probs[i])])
      columns_to_keep == <<N_Mean>> \o prob_cols \o <<N_N_Eff, N_R_hat>>
      \* lines 75-76
      split_df(filtered) ==
        DataFrame(list([r \in 1..Len(filtered.index) |->
                          split_variable_name(filtered.index[r], y)]),
                  <<N_variable, x>> \o (IF y # NaN THEN <<y>> ELSE <<>>))
      \* line 78
      summary_df(split, kept) ==
        [columns |-> split.columns \o kept.columns,
         data |-> list([r \in 1..Len(kept.data) |-> split.data[r] \o kept.data[r]])]
      \* lines 81-84
      with_column(t, name) ==
        IF ~HasCol(t, name) THEN set_column(t, name, [r \in 1..Len(t.data) |-> NaN])
        ELSE t
      joined(kept, split) ==
        IF ~split.ok THEN split
        ELSE Ok(with_column(with_column(summary_df(split.val, kept), N_N_Eff), N_R_hat))
      \* line 60
      selected(filtered, kept) ==
        IF ~kept.ok THEN kept ELSE joined(kept.val, split_df(filtered))
      columns(filtered) == selected(filtered, select_columns(filtered, columns_to_keep))
  IN  columns(filtered_summary(summary(fit, probs)))

(***************************************************************************)
(* DataFrame.eval: the arithmetic of a formula over the columns of a table *)
(* (numbers are fractions <<n, d>>, d > 0, in lowest terms; the formulas   *)
(* of the model divide by non-zero literals only)                          *)
(***************************************************************************)
Letter == Lower \cup Upper

IdentStart == Letter \cup {"_"}

IdentChar == Letter \cup Digit \cup {"_"}

RECURSIVE Gcd(_, _)
Gcd(a, b) == IF b = 0 THEN a ELSE Gcd(b, a % b)

Abs(n) == IF n < 0 THEN -n ELSE n

Frac(n, d) ==
  LET g == Gcd(Abs(n), Abs(d))
      sgn == IF d < 0 THEN -1 ELSE 1
  IN  <<(sgn * n) \div g, (sgn * d) \div g>>

\* a table cell as a fraction, and back
CellValue(cell) == IF IsNaN(cell) THEN NaN ELSE IF Len(cell) = 2 THEN <<cell[2], 1>>
                   ELSE <<cell[2], cell[3]>>

ValueCell(v) == IF IsNaN(v) THEN NaN ELSE IF v[2] = 1 THEN Num(v[1]) ELSE <<"#", v[1], v[2]>>

\* a missing operand makes the result missing
Arith(o, a, b) ==
  IF IsNaN(a) \/ IsNaN(b) THEN NaN
  ELSE IF o = "+" THEN Frac(a[1] * b[2] + b[1] * a[2], a[2] * b[2])
  ELSE IF o = "-" THEN Frac(a[1] * b[2] - b[1] * a[2], a[2] * b[2])
  ELSE IF o = "*" THEN Frac(a[1] * b[1], a[2] * b[2])
  ELSE Frac(a[1] * b[2], a[2] * b[1])

RECURSIVE Pow10(_)
Pow10(n) == IF n = 0 THEN 1 ELSE 10 * Pow10(n - 1)

BACKQUOTE == "BACKQUOTE"

RECURSIVE Tokenize(_, _)
\* the tokens of the expression from position i on; "bad" marks text that is
\* no arithmetic over names (a stray character, a digit run glued to a
\* name, an attribute access, an unclosed quote)
Tokenize(s, i) ==
  IF i > Len(s) THEN <<>>
  ELSE IF s[i] = " " THEN Tokenize(s, i + 1)
  ELSE IF s[i] \in Digit THEN
    LET d1 == RunLen(s, i, Digit)
        dot == IF CharAt(s, i + d1) = "." THEN 1 ELSE 0
        d2 == IF dot = 1 THEN RunLen(s, i + d1 + 1, Digit) ELSE 0
        j == i + d1 + dot + d2
    IN  IF CharAt(s, j) \in IdentStart \cup {"."} THEN <<[k |-> "bad"]>>
        ELSE <<[k |-> "num",
                v |-> Frac(int(SubSeq(s, i, i + d1 - 1) \o SubSeq(s, i + d1 + 1, j - 1)),
                           Pow10(d2))]>> \o Tokenize(s, j)
  ELSE IF s[i] \in IdentStart THEN
    LET n == RunLen(s, i, IdentChar)
    IN  IF CharAt(s, i + n) = "." THEN <<[k |-> "bad"]>>
        ELSE <<[k |-> "name", v |-> SubSeq(s, i, i + n - 1)]>> \o Tokenize(s, i + n)
  ELSE IF s[i] = BACKQUOTE THEN
    LET close == {j \in (i + 1)..Len(s) : s[j] = BACKQUOTE}
    IN  IF close = {} THEN <<[k |-> "bad"]>>
        ELSE LET j == CHOOSE c \in close : \A c2 \in close : c <= c2
             IN  <<[k |-> "name", v |-> SubSeq(s, i + 1, j - 1)]>> \o Tokenize(s, j + 1)
  ELSE IF s[i] \in {"+", "-", "*", "/", "(", ")"} THEN
    <<[k |-> "op", v |-> s[i]]>> \o Tokenize(s, i + 1)
  ELSE <<[k |-> "bad"]>>

IsOp(toks, p, ops) == p <= Len(toks) /\ toks[p].k = "op" /\ toks[p].v \in ops

Parsed(v, p) == [ok |-> TRUE, v |-> v, p |-> p, err |-> "none"]

ParseError(e) == [ok |-> FALSE, v |-> NaN, p |-> 0, err |-> e]

RECURSIVE ParseSum(_, _, _), ParseSumRest(_, _, _, _), ParseProduct(_, _, _),
          ParseProductRest(_, _, _, _), ParseFactor(_, _, _)

\* row maps the names of the columns to the cells of one row
ParseFactor(toks, p, row) ==
  LET signed(f) == IF ~f.ok THEN f
                   ELSE IF toks[p].v = "-" THEN Parsed(Arith("-", <<0, 1>>, f.v), f.p)
                   ELSE f
      closed(e) == IF ~e.ok THEN e
                   ELSE IF IsOp(toks, e.p, {")"}) THEN Parsed(e.v, e.p + 1)
                   ELSE ParseError("SyntaxError")
  IN  IF p > Len(toks) THEN ParseError("SyntaxError")
      ELSE IF toks[p].k = "num" THEN Parsed(toks[p].v, p + 1)
      ELSE IF toks[p].k = "name" THEN
        IF toks[p].v \in DOMAIN row THEN Parsed(CellValue(row[toks[p].v]), p + 1)
        ELSE ParseError("UndefinedVariableError")
      ELSE IF IsOp(toks, p, {"-", "+"}) THEN signed(ParseFactor(toks, p + 1, row))
      ELSE IF IsOp(toks, p, {"("}) THEN closed(ParseSum(toks, p + 1, row))
      ELSE ParseError("SyntaxError")

ParseProductRest(toks, p, row, acc) ==
  LET next(f) == IF ~f.ok THEN f
                 ELSE ParseProductRest(toks, f.p, row, Arith(toks[p].v, acc, f.v))
  IN  IF IsOp(toks, p, {"*", "/"}) THEN next(ParseFactor(toks, p + 1, row))
      ELSE Parsed(acc, p)

ParseProduct(toks, p, row) ==
  LET rest(f) == IF ~f.ok THEN f ELSE ParseProductRest(toks, f.p, row, f.v)
  IN  rest(ParseFactor(toks, p, row))

ParseSumRest(toks, p, row, acc) ==
  LET next(t) == IF ~t.ok THEN t
                 ELSE ParseSumRest(toks, t.p, row, Arith(toks[p].v, acc, t.v))
  IN  IF IsOp(toks, p, {"+", "-"}) THEN next(ParseProduct(toks, p + 1, row))
      ELSE Parsed(acc, p)

ParseSum(toks, p, row) ==
  LET rest(t) == IF ~t.ok THEN t ELSE ParseSumRest(toks, t.p, row, t.v)
  IN  rest(ParseProduct(toks, p, row))

\* the names a formula refers to
FormulaNames(formula) ==
  LET toks == Tokenize(formula, 1)
  IN  {toks[i].v : i \in {j \in 1..Len(toks) : toks[j].k = "name"}}

\* df.eval(formula): the column of the formula's values, one per row; an
\* exception when the text is no expression or a name is no column
eval(df, formula) ==
  LET row(r) == [n \in Range(df.columns) |-> df.data[r][ColIdx(df, n)]]
      whole(e, toks) == IF ~e.ok THEN e
                        ELSE IF e.p # Len(toks) + 1 THEN ParseError("SyntaxError")
                        ELSE e
      rows(toks, probe) ==
        IF ~probe.ok THEN Raise(probe.err)
        ELSE Ok(list([r \in 1..Len(df.data) |->
                        ValueCell(whole(ParseSum(toks, 1, row(r)), toks).v)]))
      \* names are resolved when the expression is parsed, rows or no rows
      parse(toks) ==
        IF \E i \in 1..Len(toks) : toks[i].k = "bad" THEN Raise("SyntaxError")
        ELSE rows(toks, whole(ParseSum(toks, 1, [n \in Range(df.columns) |-> NaN]), toks))
  IN  parse(Tokenize(formula, 1))

(***************************************************************************)
(* mutate_from_expr_list                                                   *)
(***************************************************************************)
\* [0-9]+/[0-9]+\s?\*  at position i: the length of the match, 0 for none
FractionMatch(s, i) ==
  LET d1 == RunLen(s, i, Digit)
      d2 == RunLen(s, i + d1 + 1, Digit)
      sp == IF CharAt(s, i + d1 + 1 + d2) = " " THEN 1 ELSE 0
  IN  IF d1 >= 1 /\ CharAt(s, i + d1) = "/" /\ d2 >= 1
         /\ CharAt(s, i + d1 + 1 + d2 + sp) = "*"
      THEN d1 + 1 + d2 + sp + 1 ELSE 0

\* [-+]?[0-9]+\.[0-9]+\s?\*  at position i
DecimalMatch(s, i) ==
  LET sg == IF CharAt(s, i) \in {"-", "+"} THEN 1 ELSE 0
      d1 == RunLen(s, i + sg, Digit)
      d2 == RunLen(s, i + sg + d1 + 1, Digit)
      sp == IF CharAt(s, i + sg + d1 + 1 + d2) = " " THEN 1 ELSE 0
  IN  IF d1 >= 1 /\ CharAt(s, i + sg + d1) = "." /\ d2 >= 1
         /\ CharAt(s, i + sg + d1 + 1 + d2 + sp) = "*"
      THEN sg + d1 + 1 + d2 + sp + 1 ELSE 0

RECURSIVE remove_fractions(_, _)
\* re.sub(r"[0-9]+/[0-9]+\s?\*", "", expr) from position i on
remove_fractions(s, i) ==
  IF i > Len(s) THEN <<>>
  ELSE IF FractionMatch(s, i) > 0 THEN remove_fractions(s, i + FractionMatch(s, i))
  ELSE <<s[i]>> \o remove_fractions(s, i + 1)

RECURSIVE remove_decimals(_, _)
\* re.sub(r"[-+]?[0-9]+\.[0-9]+\s?\*", "", expr) from position i on
remove_decimals(s, i) ==
  IF i > Len(s) THEN <<>>
  ELSE IF DecimalMatch(s, i) > 0 THEN remove_decimals(s, i + DecimalMatch(s, i))
  ELSE <<s[i]>> \o remove_decimals(s, i + 1)

\* lines 100-105
clean_contrast_elements(expr) ==
  LET e1 == remove_fractions(expr, 1)
      e2 == remove_decimals(e1, 1)
      elements == re_split(e2, {"+", "-", "*"})
  IN  list([i \in 1..Len(elements) |->
              FilterSeq(elements[i],
                        {j \in 1..Len(elements[i]) : elements[i][j] \notin {"(", ")", " "}})])

\* line 107
contrast_elements(formula_expr) ==
  Concat([i \in 1..Len(formula_expr) |-> clean_contrast_elements(formula_expr[i][2])])

\* lines 110-111: not re.match(r"^[a-zA-Z0-9_]+$", element)
requires_backquotes(element) ==
  ~(Len(element) >= 1 /\ \A i \in 1..Len(element) : element[i] \in IdentChar)

\* line 113
invalid_contrasts(elements, parameter_names) ==
  FilterSeq(elements, {i \in 1..Len(elements) :
                         requires_backquotes(elements[i])
                         /\ elements[i] \notin Range(parameter_names)})

\* only the first missing element
missing_contrasts_first(elements, parameter_names) ==
  LET missing == {i \in 1..Len(elements) : elements[i] \notin Range(parameter_names)}
  IN  FilterSeq(elements, {i \in missing : \A j \in missing : i <= j})

\* line 118
missing_contrasts(elements, parameter_names) ==
  FilterSeq(elements, {i \in 1..Len(elements) : elements[i] \notin Range(parameter_names)})

RECURSIVE str_replace(_, _, _)
\* str.replace(old, new): every occurrence, left to right
str_replace(s, old, new) ==
  IF Len(s) < Len(old) THEN s
  ELSE IF SubSeq(s, 1, Len(old)) = old
  THEN new \o str_replace(SubSeq(s, Len(old) + 1, Len(s)), old, new)
  ELSE <<s[1]>> \o str_replace(Tail(s), old, new)

\* re.match(r"^[a-zA-Z_][a-zA-Z0-9_]*$", col)
IsIdentifier(col) ==
  Len(col) >= 1 /\ col[1] \in IdentStart /\ \A i \in 1..Len(col) : col[i] \in IdentChar

RECURSIVE escape_column_names(_, _)
\* lines 123-128
escape_column_names(formula, columns) ==
  IF Len(columns) = 0 THEN formula
  ELSE escape_column_names(
         IF ~IsIdentifier(columns[1])
         THEN str_replace(formula, columns[1], <<BACKQUOTE>> \o columns[1] \o <<BACKQUOTE>>)
         ELSE formula,
         Tail(columns))

\* a formula that fails in lenient mode gets a column of missing values
mutate_with_formula_nan_column(df, column_name, formula, parameter_names, ignore_errors) ==
  LET assign(escaped, column) ==
        IF column.ok
        THEN [df |-> set_column(df, column_name, column.val), raised |-> "none",
              printed |-> <<>>]
        ELSE IF ~ignore_errors
        THEN [df |-> df, raised |-> column.err, printed |-> <<>>]
        ELSE [df |-> set_column(df, column_name, [r \in 1..Len(df.data) |-> NaN]),
              raised |-> "none", printed |-> <<<<"formula", escaped>>>>]
      evaluate(escaped) == assign(escaped, eval(df, escaped))
  IN  evaluate(escape_column_names(formula, parameter_names))

\* lines 131-140: the table after the formula, the exception re-raised in
\* strict mode, the warning printed in lenient mode
mutate_with_formula(df, column_name, formula, parameter_names, ignore_errors) ==
  LET assign(escaped, column) ==
        IF column.ok
        THEN [df |-> set_column(df, column_name, column.val), raised |-> "none",
              printed |-> <<>>]
        ELSE IF ~ignore_errors
        THEN [df |-> df, raised |-> column.err, printed |-> <<>>]
        ELSE [df |-> df, raised |-> "none", printed |-> <<<<"formula", escaped>>>>]
      evaluate(escaped) == assign(escaped, eval(df, escaped))
  IN  evaluate(escape_column_names(formula, parameter_names))

\* what a call of mutate_from_expr_list leaves behind: the value returned or
\* the exception, the message of the exception, the caller's table (which
\* the function changes in place) and the warnings printed
MutateOutcome(err, table, msg, printed) ==
  [ok |-> err = "none", val |-> IF err = "none" THEN table ELSE <<>>, err |-> err,
   table |-> table, msg |-> msg, printed |-> printed]

RECURSIVE mutate_loop(_, _, _, _, _)
\* lines 142-143
mutate_loop(df, items, parameter_names, ignore_errors, printed) ==
  IF Len(items) = 0 THEN MutateOutcome("none", df, <<>>, printed)
  ELSE LET rest(step) ==
             IF step.raised # "none"
             THEN MutateOutcome(step.raised, step.df, <<>>, printed)
             ELSE mutate_loop(step.df, Tail(items), parameter_names, ignore_errors,
                              printed \o step.printed)
       IN  rest(mutate_with_formula(df, items[1][1], items[1][2],
                                    parameter_names, ignore_errors))

\* lines 93-94: a dictionary stays, a list becomes {k: k}; the dictionary is
\* the sequence of its (key, formula) pairs in insertion order
as_dict(formula_expr) ==
  IF formula_expr.kind = "dict" /\ Len(formula_expr.items) > 0 THEN formula_expr.items
  ELSE LET keys == IF formula_expr.kind = "dict"
                   THEN [i \in 1..Len(formula_expr.items) |-> formula_expr.items[i][1]]
                   ELSE formula_expr.items
           first == {i \in 1..Len(keys) : \A j \in 1..(i - 1) : keys[j] # keys[i]}
       IN  FilterSeq([i \in 1..Len(keys) |-> <<keys[i], keys[i]>>], first)

mutate_from_expr_list(x, formula_expr, ignore_errors) ==
  LET dict == as_dict(formula_expr)
      parameter_names == x.columns
      elements == contrast_elements(dict)
      invalid == invalid_contrasts(elements, parameter_names)
      printed == IF Len(invalid) > 0 THEN <<<<"backquotes", invalid>>>> ELSE <<>>
      missing == missing_contrasts(elements, parameter_names)
  IN  IF Len(missing) > 0 /\ ~ignore_errors
      THEN MutateOutcome("ValueError", x, missing, printed)
      ELSE mutate_loop(x, dict, parameter_names, ignore_errors, printed)

(***************************************************************************)
(* get_abundance_contrast_draws                                            *)
(***************************************************************************)
\* the distinct rows of a sequence of rows, sorted on all their cells
SortedDistinct(rows, width) ==
  LET distinct(sorted) ==
        FilterSeq(sorted, {r \in 1..Len(sorted) : r = 1 \/ sorted[r - 1] # sorted[r]})
  IN  distinct(StableSort(rows, list([i \in 1..width |-> i])))

Project(t, r, names) == list([i \in 1..Len(names) |-> t.data[r][ColIdx(t, names[i])]])

\* DataFrame.pivot(index, columns, values): one row per distinct index
\* tuple and one column per distinct value of the columns column, both
\* sorted; NaN where no record exists; KeyError for an absent column,
\* ValueError when an (index, column) pair occurs twice
pivot(t, index, columns, values) ==
  IF \E n \in Range(index) \cup {columns, values} : ~HasCol(t, n) THEN Raise("KeyError")
  ELSE
  LET rows == 1..Len(t.data)
      wide(idx, keys) ==
        LET hits(i, k) == {r \in rows : Project(t, r, index) = idx[i]
                                         /\ At(t, r, columns) = keys[k][1]}
        IN  IF \E i \in 1..Len(idx), k \in 1..Len(keys) : Cardinality(hits(i, k)) > 1
            THEN Raise("ValueError")
            ELSE Ok([index_names |-> index,
                     keys |-> list([k \in 1..Len(keys) |-> keys[k][1]]),
                     data |-> list([i \in 1..Len(idx) |->
                                 idx[i] \o list([k \in 1..Len(keys) |->
                                           IF hits(i, k) = {} THEN NaN
                                           ELSE At(t, CHOOSE r \in hits(i, k) : TRUE,
                                                   values)])])])
  IN  wide(SortedDistinct(list([r \in rows |-> Project(t, r, index)]), Len(index)),
           SortedDistinct(list([r \in rows |-> <<At(t, r, columns)>>]), 1))

\* wide.columns = labels: ValueError when the number of labels is not the
\* number of columns
set_axis(wide, labels) ==
  IF Len(labels) # Len(wide.keys) THEN Raise("ValueError")
  ELSE Ok([wide EXCEPT !.keys = labels])

\* reset_index(): the index levels become the first columns
reset_index(wide) == [columns |-> wide.index_names \o wide.keys, data |-> wide.data]

\* drop(columns = names, errors = 'ignore')
drop(t, names) ==
  select_columns(t, FilterSeq(t.columns, {i \in 1..Len(t.columns) :
                                            t.columns[i] \notin Range(names)})).val

RECURSIVE SumCells(_)
SumCells(cells) == IF Len(cells) = 0 THEN 0 ELSE cells[1][2] + SumCells(Tail(cells))

\* groupby(keys)[column].sum().reset_index(): KeyError for an absent key or
\* for a column the table has not
groupby_sum(t, keys, column) ==
  IF \E n \in Range(keys) \cup {column} : ~HasCol(t, n) THEN Raise("KeyError")
  ELSE
  LET sums(groups) ==
        LET members(g) == {r \in 1..Len(t.data) : Project(t, r, keys) = groups[g]}
        IN  Ok([columns |-> Append(keys, column),
                data |-> list([g \in 1..Len(groups) |->
                            Append(groups[g],
                                   Num(SumCells(list([r \in 1..Len(t.data) |->
                                          IF r \in members(g) THEN At(t, r, column)
                                          ELSE Num(0)]))))])])
  IN  sums(SortedDistinct(list([r \in 1..Len(t.data) |-> Project(t, r, keys)]), Len(keys)))

\* df[target] = -df[source]
negate_column(t, target, source) ==
  IF ~HasCol(t, source) THEN Raise("KeyError")
  ELSE Ok(set_column(t, target, [r \in 1..Len(t.data) |-> Num(-At(t, r, source)[2])]))

\* df[column].max() + 1, NaN for a table without rows
max_plus_one(t, column) ==
  IF Len(t.data) = 0 THEN NaN
  ELSE Num(1 + (CHOOSE m \in {At(t, r, column)[2] : r \in 1..Len(t.data)} :
                  \A r \in 1..Len(t.data) : At(t, r, column)[2] <= m))

\* pd.concat([a, b]): the rows of a then those of b, over the union of the
\* columns, NaN where a table has not the column
concat(a, b) ==
  LET columns == a.columns \o FilterSeq(b.columns, {i \in 1..Len(b.columns) :
                                                      b.columns[i] \notin Range(a.columns)})
      widen(t) == list([r \in 1..Len(t.data) |->
                    list([c \in 1..Len(columns) |->
                       IF HasCol(t, columns[c]) THEN At(t, r, columns[c]) ELSE NaN])])
  IN  [columns |-> columns, data |-> widen(a) \o widen(b)]

\* draws.merge(wide, left_index = True, right_index = True, how = 'left'):
\* the join of the two indexes. draws carries the unnamed range index that
\* reset_index left, wide the levels chain__, iter__, draw__ of its pivot;
\* the two share no level name, which the join refuses with a ValueError
merge_on_index(draws, wide) ==
  LET draws_index_names == <<>>
  IN  IF Range(draws_index_names) \cap Range(wide.index_names) = {} THEN Raise("ValueError")
      ELSE Ok(draws)

\* where a call of the orchestrator stands: whether it returned, the
\* exception raised (and the source line), the local table draws, the number
\* of merges done, the long random-effect tables completed with their
\* synthetic level, the table of diagnostics, and the value returned (NaN
\* for None)
Running(draws) ==
  [ok |-> FALSE, err |-> "none", line |-> 0, draws |-> draws, merges |-> 0,
   random_effects |-> <<>>, convergence_df |-> NaN, val |-> NaN]

Raised(st, e, line) == [st EXCEPT !.err = e, !.line = line]

\* lines 160-170: the primary coefficient matrix
beta_block(fit, model_input) ==
  LET start == Running(NaN)
      \* lines 165-168
      draws(beta) ==
        IF ~beta.ok THEN Raised(start, beta.err, 164)
        ELSE Running(drop(reset_index(beta.val), <<N_variable>>))
      \* line 164
      named(beta) ==
        IF ~beta.ok THEN Raised(start, beta.err, 163)
        ELSE draws(set_axis(beta.val, model_input.X))
      \* line 163
      wide(beta) ==
        IF ~beta.ok THEN Raised(start, beta.err, 162)
        ELSE named(pivot(beta.val, <<N_chain__, N_iter__, N_draw__, N_variable, N_M>>,
                         N_C, N_value))
  IN  wide(draws_to_tibble_x_y(fit, N_beta, N_C, N_M))

\* lines 173-186 (which = 1) and 189-202 (which = 2); the two blocks differ
\* in the names they give the value and variable columns
random_effect_block(st, fit, model_input, which) ==
  IF st.err # "none" \/ ~(model_input.n_random_eff > which - 1) THEN st
  ELSE
  LET first == 173 + 16 * (which - 1)
      labels == IF which = 1 THEN model_input.X_random_effect
                ELSE model_input.X_random_effect_2
      factor_of_interest == IF labels # NaN THEN labels ELSE <<>>
      par == IF which = 1 THEN N_random_effect ELSE N_random_effect_2
      variable_key == IF which = 1 THEN N_variable ELSE N_dot_variable
      summed_column == IF which = 1 THEN N_dot_value ELSE N_value
      pivot_values == IF which = 1 THEN N_dot_value ELSE N_value
      \* the merge and the assignment to draws
      merged(all, merge) ==
        IF ~merge.ok THEN Raised(st, merge.err, first + 13)
        ELSE [st EXCEPT !.draws = merge.val,
                        !.merges = st.merges + 1,
                        !.random_effects = Append(st.random_effects, all)]
      named(all, wide) ==
        IF ~wide.ok THEN Raised(st, wide.err, first + 12)
        ELSE merged(all, merge_on_index(st.draws, wide.val))
      pivoted(all, wide) ==
        IF ~wide.ok THEN Raised(st, wide.err, first + 11)
        ELSE named(all, set_axis(wide.val, factor_of_interest))
      \* the concatenation, then the pivot
      appended(all) ==
        pivoted(all, pivot(all, <<N_chain__, N_iter__, N_draw__>>, N_C, pivot_values))
      \* the synthetic level
      levelled(long, sum, level) ==
        appended(concat(long, set_column(sum, N_M, [r \in 1..Len(sum.data) |-> level])))
      negated(long, sum) ==
        IF ~sum.ok THEN Raised(st, sum.err, first + 6)
        ELSE levelled(long, sum.val, max_plus_one(long, N_M))
      summed(long, sum) ==
        IF ~sum.ok THEN Raised(st, sum.err, first + 5)
        ELSE negated(long, negate_column(sum.val, N_dot_value, N_dot_value))
      drawn(long) ==
        IF ~long.ok THEN Raised(st, long.err, first + 2)
        ELSE summed(long.val,
                    groupby_sum(long.val,
                                <<N_C, N_chain__, N_iter__, N_draw__, variable_key>>,
                                summed_column))
  IN  drawn(draws_to_tibble_x_y(fit, par, N_C, N_M))

\* the names bound in the module: its imports and its four functions
ModuleGlobals ==
  {"pd", "re", "np", "reduce", "draws_to_tibble_x_y", "summary_to_tibble",
   "mutate_from_expr_list", "get_abundance_contrast_draws"}

\* the names get_abundance_contrast_draws binds: its parameters and the
\* targets of its assignments
FunctionLocals ==
  {"data", "contrasts", "cell_group", "model_input", "fit", "beta_factor_of_interest",
   "beta", "draws", "n_random_eff", "beta_random_effect_factor_of_interest",
   "beta_random_effect", "beta_random_effect_sum",
   "beta_random_effect_factor_of_interest_2", "beta_random_effect_2",
   "beta_random_effect_2_sum", "cell_names", "convergence_df"}

\* the builtins the function could mean
Builtins == {"True", "False", "None", "len", "range"}

\* a name that is bound in no scope raises NameError when it is read
Bound(name) == name \in FunctionLocals \cup ModuleGlobals \cup Builtins

\* lines 206-207; TRUE_value is what the name TRUE would be bound to
contrasts_block(st, contrasts, TRUE_value) ==
  IF st.err # "none" \/ contrasts = NaN \/ Len(contrasts.items) = 0 THEN st
  ELSE IF ~Bound("TRUE") THEN Raised(st, "NameError", 207)
  ELSE LET mutated(out) == IF ~out.ok THEN Raised(st, out.err, 207)
                           ELSE [st EXCEPT !.draws = out.val]
       IN  mutated(mutate_from_expr_list(st.draws, contrasts, TRUE_value))

\* rename(columns = {old: new})
rename(t, old, new) ==
  [t EXCEPT !.columns = [i \in 1..Len(t.columns) |->
                           IF t.columns[i] = old THEN new ELSE t.columns[i]]]

\* lines 210-225; y_columns is what y.columns would be, were y bound
cell_names_block(st, cell_group, fit, y_columns) ==
  IF st.err # "none" THEN st
  ELSE IF ~Bound("y") THEN Raised(st, "NameError", 210)
  ELSE
  LET \* line 218
      minimal(draws, pairs) ==
        [st EXCEPT !.draws = draws, !.ok = TRUE,
                   !.val = [pairs EXCEPT !.data =
                              FilterSeq(pairs.data, {r \in 1..Len(pairs.data) :
                                 \A q \in 1..(r - 1) : pairs.data[q] # pairs.data[r]})]]
      \* lines 221-225
      convergence(draws, convergence_df) ==
        IF ~convergence_df.ok
        THEN Raised([st EXCEPT !.draws = draws], convergence_df.err, 221)
        \* the function ends without a return statement
        ELSE [st EXCEPT !.draws = draws, !.ok = TRUE, !.val = NaN,
                        !.convergence_df =
                          IF HasCol(convergence_df.val, N_Rhat)
                          THEN rename(convergence_df.val, N_Rhat, N_R_k_hat)
                          ELSE IF HasCol(convergence_df.val, N_khat)
                          THEN rename(convergence_df.val, N_khat, N_R_k_hat)
                          ELSE convergence_df.val]
      \* line 217
      output(draws) ==
        IF Len(draws.columns) <= 5
        THEN minimal(draws, select_columns(draws, <<cell_group, N_M>>).val)
        ELSE convergence(draws, summary_to_tibble(fit, N_beta, N_C, N_M,
                                                  <<5, 25, 50, 75, 95>>))
      \* line 214
      ordered(named) ==
        output(select_columns(named,
                 <<cell_group>> \o FilterSeq(named.columns,
                     {i \in 1..Len(named.columns) : named.columns[i] # cell_group})).val)
  IN  \* lines 211-213
      ordered(set_column(st.draws, cell_group,
                [r \in 1..Len(st.draws.data) |->
                   IF At(st.draws, r, N_M)[2] \in 1..Len(y_columns)
                   THEN y_columns[At(st.draws, r, N_M)[2]] ELSE NaN]))

\* data: cell_group, model_input (X, n_random_eff, X_random_effect,
\* X_random_effect_2: the labels of the design matrices' columns; y: the
\* names of the outcome categories, which the function never reads) and fit
get_abundance_contrast_draws(data, contrasts) ==
  cell_names_block(
    contrasts_block(
      random_effect_block(
        random_effect_block(
          beta_block(data.fit, data.model_input),
          data.fit, data.model_input, 1),
        data.fit, data.model_input, 2),
      contrasts, TRUE),
    data.cell_group, data.fit, NaN)

(***************************************************************************)
(* Inputs of the draw reshaper: fits of a model with a fixed-effect beta   *)
(* (a scalar, a vector or a matrix) and up to two random-effect matrices,  *)
(* the draw table in any order of its rows                                 *)
(***************************************************************************)
\* the sampler's own order: chain by chain, iterations ascending
EngineRows(nc, ni) == [k \in 1..(nc * ni) |-> <<((k - 1) \div ni) + 1, ((k - 1) % ni) + 1>>]

Reverse(s) == [i \in 1..Len(s) |-> s[Len(s) + 1 - i]]

RowPermutations(s) ==
  {[i \in 1..Len(s) |-> s[p[i]]] :
     p \in {q \in [1..Len(s) -> 1..Len(s)] : \A i, j \in 1..Len(s) : q[i] = q[j] => i = j}}

RowOrders(nc, ni) ==
  IF nc * ni <= MaxPermRows THEN RowPermutations(EngineRows(nc, ni))
  ELSE {EngineRows(nc, ni), Reverse(EngineRows(nc, ni))}

BetaDims == {<<>>} \cup {<<n>> : n \in 1..MaxDim} \cup {<<r, c>> : r, c \in 1..MaxDim}

RandomEffectVariables(n) ==
  SubSeq(<<[name |-> N_random_effect, dims |-> <<2, 2>>],
           [name |-> N_random_effect_2, dims |-> <<2, 2>>]>>, 1, n)

MakeFit(dims, nre, rows) ==
  [variables |-> <<[name |-> N_beta, dims |-> dims]>> \o RandomEffectVariables(nre),
   rows |-> rows,
   diagnostics |-> <<N_N_Eff, N_R_hat>>]

ReshapeFits ==
  {MakeFit(dims, nre, rows) :
     dims \in BetaDims, nre \in 0..2,
     rows \in UNION {RowOrders(nc, ni) : nc \in 1..MaxChains, ni \in 1..MaxIter}}

Pars == {N_beta, N_random_effect, N_random_effect_2}

(***************************************************************************)
(* Inputs of the orchestrator: a fit in the sampler's order, the labels of *)
(* the design matrices, the number of random-effect groups, contrasts      *)
(***************************************************************************)
\* n labels: x1, x2, ...
Labels(n) == [i \in 1..n |-> <<"x">> \o str(i)]

\* the names of n outcome categories: c1, c2, ...
CategoryNames(n) == [i \in 1..n |-> <<"c">> \o str(i)]

\* "cell_group"
CellGroup == <<"c", "e", "l", "l", "_", "g", "r", "o", "u", "p">>

OrchestratorData ==
  {[cell_group |-> CellGroup,
    model_input |-> [X |-> Labels(nx), n_random_eff |-> nre,
                     y |-> CategoryNames(IF Len(dims) = 2 THEN dims[2] ELSE 1),
                     X_random_effect |-> IF nre >= 1 THEN Labels(2) ELSE NaN,
                     X_random_effect_2 |-> IF nre >= 2 THEN Labels(2) ELSE NaN],
    fit |-> MakeFit(dims, nre, EngineRows(nc, ni))] :
     nx \in 1..MaxDim, nre \in 0..2, dims \in BetaDims,
     nc \in 1..MaxChains, ni \in 1..MaxIter}

\* no contrasts, or the difference of the first two coefficients
OrchestratorContrasts ==
  {NaN, [kind |-> "list", items |-> <<<<"x", "1", "-", "x", "2">>>>]}

(***************************************************************************)
(* Inputs of the summary reshaper: the summary of a fit with any of the    *)
(* two diagnostic columns missing                                          *)
(***************************************************************************)
Diagnostics == {<<N_N_Eff, N_R_hat>>, <<N_N_Eff>>, <<N_R_hat>>, <<>>}

SummaryFits ==
  {[MakeFit(dims, nre, EngineRows(1, 1)) EXCEPT !.diagnostics = dg] :
     dims \in BetaDims, nre \in 0..2, dg \in Diagnostics}

\* the default quantiles of summary_to_tibble, and a shorter choice
Probs == {<<5, 25, 50, 75, 95>>, <<5, 95>>}

(***************************************************************************)
(* Inputs of the contrast evaluator: a wide table, formulas as a list or   *)
(* as a dictionary, strict or lenient                                      *)
(***************************************************************************)
ColumnLists == {<<<<"a">>, <<"b">>>>, <<<<"a">>>>, <<<<"a">>, <<"b">>, <<"b", ".", "c">>>>}

MakeTable(columns, n) ==
  [columns |-> columns,
   data |-> list([r \in 1..n |-> list([c \in 1..Len(columns) |-> Num(2 * r + c)])])]

MutateTables == {MakeTable(cols, n) : cols \in ColumnLists, n \in 1..MaxRows}

Formulas ==
  {
   <<"a">>,  \* "a"
   <<"a", "-", "b">>,  \* "a-b"
   <<"a", " ", "+", " ", "c">>,  \* "a + c"
   <<"2", "/", "3", "*", "a", " ", "-", " ", "b">>,  \* "2/3*a - b"
   <<"0", ".", "5", "*", "a", "+", "b">>,  \* "0.5*a+b"
   <<"(", "a", "-", "b", ")", "*", "2">>,  \* "(a-b)*2"
   <<"d", "1", "+", "a">>,  \* "d1+a"
   <<"a", "-", "b", ".", "c">>,  \* "a-b.c"
   <<"a", " ", "-">>,  \* "a -"
   <<"c", "*", "e">>  \* "c*e"
  }

FormulaLists == SeqsUpTo(Formulas, MaxFormulas)

\* the keys of a dictionary of formulas: new names d1, d2, ..., or the
\* existing column a first
DictKey(first, i) == IF i = 1 /\ first # NaN THEN first ELSE <<"d">> \o str(i)

FormulaExprs ==
  {[kind |-> "list", items |-> fs] : fs \in FormulaLists}
  \cup {[kind |-> "dict", items |-> [i \in 1..Len(fs) |-> <<DictKey(first, i), fs[i]>>]] :
          fs \in FormulaLists, first \in {NaN, <<"a">>}}

(***************************************************************************)
(* Specification: every invocation starts from fresh tables (nothing       *)
(* persists between calls), so a behaviour is one call of one function on  *)
(* one input.                                                              *)
(***************************************************************************)
Init ==
  /\ op = "none"
  /\ args = <<>>
  /\ result = <<>>

ExtractIndices ==
  \E v \in VarNames, r \in Indices, c \in Indices :
    /\ op = "none"
    /\ op' = "extract"
    /\ args' = [v |-> v, r |-> r, c |-> c]
    /\ result' = extract_indices(ParameterName(v, r, c))

Reshape ==
  \E fit \in ReshapeFits, par \in Pars :
    /\ op = "none"
    /\ op' = "reshape"
    /\ args' = [fit |-> fit, par |-> par]
    /\ result' = draws_to_tibble_x_y(fit, par, N_C, N_M)

Summarise ==
  \E fit \in SummaryFits, par \in Pars, y \in {NaN, N_M}, probs \in Probs :
    /\ op = "none"
    /\ op' = "summary"
    /\ args' = [fit |-> fit, par |-> par, y |-> y, probs |-> probs]
    /\ result' = summary_to_tibble(fit, par, N_C, y, probs)

Mutate ==
  \E x \in MutateTables, formula_expr \in FormulaExprs, ignore_errors \in BOOLEAN :
    /\ op = "none"
    /\ op' = "mutate"
    /\ args' = [x |-> x, formula_expr |-> formula_expr, ignore_errors |-> ignore_errors]
    /\ result' = mutate_from_expr_list(x, formula_expr, ignore_errors)

Orchestrate ==
  \E data \in OrchestratorData, contrasts \in OrchestratorContrasts :
    /\ op = "none"
    /\ op' = "orchestrate"
    /\ args' = [data |-> data, contrasts |-> contrasts]
    /\ result' = get_abundance_contrast_draws(data, contrasts)

Next == ExtractIndices \/ Reshape \/ Summarise \/ Mutate \/ Orchestrate

Spec == Init /\ [][Next]_vars

\* the index extractor alone
SpecExtract == Init /\ [][ExtractIndices]_vars

\* the draw reshaper alone
SpecReshape == Init /\ [][Reshape]_vars

\* the summary reshaper alone
SpecSummary == Init /\ [][Summarise]_vars

\* the contrast evaluator alone
SpecMutate == Init /\ [][Mutate]_vars

\* the orchestrator alone
SpecOrchestrate == Init /\ [][Orchestrate]_vars

(***************************************************************************)
(* Properties of the index extractor                                       *)
(***************************************************************************)
Recovered == result.ok /\ result.val = [variable |-> args.v, x |-> args.r, y |-> args.c]

\* C5 as stated: every name v[r,c], v a non-empty string of letters, digits,
\* underscore and dot, is recovered as exactly (v, r, c), also when v begins
\* with a digit 1-9 or with a dot
C5_Original == op = "extract" => Recovered

\* C5 amended: the two indices are always recovered, and the variable is
\* recovered exactly when v does not begin with a digit 1-9 or a dot or is a
\* single character; otherwise the leading digits and dot are taken for a
\* chain prefix and the variable recovered is a proper suffix of v
C5_Amended ==
  op = "extract" =>
    /\ result.ok /\ result.val.x = args.r /\ result.val.y = args.c
    /\ Recovered <=> (args.v[1] \notin Digit19 \cup {"."} \/ Len(args.v) = 1)
    /\ \E i \in 1..Len(args.v) : result.val.variable = SubSeq(args.v, i, Len(args.v))

C5_Witness ==
  /\ op = "extract"
  /\ args.v = <<"1", ".", "a">> /\ args.r = MaxIdx /\ args.c = 1
  /\ result.ok /\ result.val = [variable |-> <<"a">>, x |-> MaxIdx, y |-> 1]

(***************************************************************************)
(* Properties of the draw reshaper                                         *)
(***************************************************************************)
GroupKey(t, r) == <<At(t, r, N_variable), At(t, r, N_C), At(t, r, N_M)>>

\* (chain__, iter__) of row a before that of row b, chain first
ChainIterBefore(t, a, b) ==
  \/ At(t, a, N_chain__)[2] < At(t, b, N_chain__)[2]
  \/ /\ At(t, a, N_chain__) = At(t, b, N_chain__)
     /\ At(t, a, N_iter__)[2] < At(t, b, N_iter__)[2]

\* in every (variable, row, col) group the draw__ values are 1..N and follow
\* the (chain__, iter__) order
DrawsDenseAndOrdered(t) ==
  \A r \in 1..Len(t.data) :
    LET group == {q \in 1..Len(t.data) : GroupKey(t, q) = GroupKey(t, r)}
    IN  /\ {At(t, q, N_draw__)[2] : q \in group} = 1..Cardinality(group)
        /\ \A a, b \in group :
             ChainIterBefore(t, a, b) => At(t, a, N_draw__)[2] < At(t, b, N_draw__)[2]

\* the draw table lists the iterations of every chain in ascending order
IterationsAscending(rows) ==
  \A i, j \in 1..Len(rows) : (i < j /\ rows[i][1] = rows[j][1]) => rows[i][2] < rows[j][2]

\* C2 as stated: for every order of the rows of the engine's draw table, the
\* reassigned draw__ of each (variable, row, col) group are exactly 1..N and
\* increase with (chain__, iter__)
C2_Original == (op = "reshape" /\ result.ok) => DrawsDenseAndOrdered(result.val)

\* C2 amended: the reassigned draw__ of each group are exactly 1..N for every
\* order of the rows, and they increase with (chain__, iter__) whenever the
\* draw table lists the iterations of each chain in ascending order (the
\* chains themselves may come in any order or interleaved)
C2_Amended ==
  (op = "reshape" /\ result.ok) =>
    /\ \A r \in 1..Len(result.val.data) :
         LET group == {q \in 1..Len(result.val.data) :
                         GroupKey(result.val, q) = GroupKey(result.val, r)}
         IN  {At(result.val, q, N_draw__)[2] : q \in group} = 1..Cardinality(group)
    /\ IterationsAscending(args.fit.rows) => DrawsDenseAndOrdered(result.val)

C2_Witness ==
  /\ op = "reshape" /\ result.ok
  /\ args.fit.rows = <<<<2, 1>>, <<1, 1>>, <<2, 2>>, <<1, 2>>>>
  /\ Len(result.val.data) = 16
  /\ DrawsDenseAndOrdered(result.val)

\* the columns draws_to_tibble_x_y melts
MeltedColumns(fit) ==
  LET df == draws_pd(fit, <<N_beta, N_chain__, N_iter__, N_draw__>>).val
  IN  {df.columns[i] : i \in {j \in 1..Len(df.columns) : Contains(df.columns[j], N_beta)}}

Parses(name) == ~IsNaN(str_extract(name).variable)

\* C9: when a melted column has a name the index grammar does not match
\* (a scalar or a one-index parameter), its records are dropped, the call
\* does not raise, and the records of the parseable columns are returned
C9_Claim ==
  (op = "reshape" /\ \E col \in MeltedColumns(args.fit) : ~Parses(col)) =>
    /\ result.ok
    /\ args.par = N_beta =>
         Len(result.val.data) =
           Len(args.fit.rows) * Cardinality({col \in MeltedColumns(args.fit) : Parses(col)})

\* the (chain, iteration, row, col) of the parameters par[r,c] of the fit
ExpectedRecords(fit, par) ==
  {<<Num(fit.rows[d][1]), Num(fit.rows[d][2]), Num(r), Num(c)>> :
     d \in 1..Len(fit.rows),
     r \in UNION {1..v.dims[1] : v \in {w \in Range(fit.variables) : w.name = par /\ Len(w.dims) = 2}},
     c \in UNION {1..v.dims[2] : v \in {w \in Range(fit.variables) : w.name = par /\ Len(w.dims) = 2}}}

\* C10: for every par (beta, random_effect, random_effect_2) the columns
\* read and melted are those of par, so the result holds exactly one record
\* per (chain, iteration) for every parameter par[r,c] of the fit and no
\* record of another variable (stated for fits whose beta is a matrix)
C10_Claim ==
  (op = "reshape" /\ Len(args.fit.variables[1].dims) = 2) =>
    /\ result.ok
    /\ \A r \in 1..Len(result.val.data) : At(result.val, r, N_variable) = args.par
    /\ {<<At(result.val, r, N_chain__), At(result.val, r, N_iter__),
          At(result.val, r, N_C), At(result.val, r, N_M)>> :
          r \in 1..Len(result.val.data)} = ExpectedRecords(args.fit, args.par)
    /\ Len(result.val.data) = Cardinality(ExpectedRecords(args.fit, args.par))

(***************************************************************************)
(* Properties of the summary reshaper                                      *)
(***************************************************************************)
\* C8: when the engine's summary has no N_Eff or no R_hat column,
\* summary_to_tibble does not raise; both columns exist in its result and
\* every value of an omitted one is NaN
C8_Claim ==
  (op = "summary" /\ Range(args.fit.diagnostics) # {N_N_Eff, N_R_hat}) =>
    /\ result.ok
    /\ HasCol(result.val, N_N_Eff) /\ HasCol(result.val, N_R_hat)
    /\ \A d \in {N_N_Eff, N_R_hat} \ Range(args.fit.diagnostics) :
         \A r \in 1..Len(result.val.data) : IsNaN(At(result.val, r, d))

(***************************************************************************)
(* Properties of the contrast evaluator                                    *)
(***************************************************************************)
\* the (name, formula) pairs the caller passed
Contrasts(formula_expr) ==
  IF formula_expr.kind = "dict" THEN Range(formula_expr.items)
  ELSE {<<f, f>> : f \in Range(formula_expr.items)}

\* the tokens of the caller's formulas that are no column of the table
MissingTokens(x, formula_expr) ==
  UNION {Range(clean_contrast_elements(c[2])) : c \in Contrasts(formula_expr)}
  \ Range(x.columns)

\* C6: in strict mode, when a token extracted from the formulas is absent
\* from the table's columns, the call fails with one validation error whose
\* message lists every missing token of every formula, before any formula
\* is evaluated: the table is as the caller passed it
C6_StrictValidation ==
  (op = "mutate" /\ ~args.ignore_errors /\ MissingTokens(args.x, args.formula_expr) # {}) =>
    /\ ~result.ok /\ result.err = "ValueError"
    /\ MissingTokens(args.x, args.formula_expr) = Range(result.msg)
    /\ result.table = args.x

C6_Witness ==
  /\ op = "mutate" /\ ~args.ignore_errors
  /\ args.formula_expr.kind = "list"
  /\ args.formula_expr.items = <<<<"a", "-", "b">>, <<"c", "*", "e">>>>
  /\ args.x.columns = <<<<"a">>, <<"b">>>>
  /\ result.err = "ValueError"
  /\ result.msg = <<<<"c">>, <<"e">>>>

\* the contrasts that refer to a name that is no column of the table
Unresolved(x, formula_expr) ==
  {c \in Contrasts(formula_expr) : FormulaNames(c[2]) \ Range(x.columns) # {}}

\* C7 as stated: in lenient mode a formula that refers to an identifier
\* absent from the table does not make the call raise, and the table
\* returned has that formula's column, holding undefined values; every
\* formula contributes one column
C7_Original ==
  (op = "mutate" /\ args.ignore_errors /\ Unresolved(args.x, args.formula_expr) # {}) =>
    /\ result.ok
    /\ \A c \in Contrasts(args.formula_expr) : HasCol(result.val, c[1])

\* the contrasts that refer to a name that is neither a column of the table
\* nor the name of a contrast: the name is absent whenever the formula is
\* reached
NeverResolved(x, formula_expr) ==
  {c \in Contrasts(formula_expr) :
     FormulaNames(c[2]) \ (Range(x.columns) \cup {d[1] : d \in Contrasts(formula_expr)}) # {}}

\* the cells of a column, top to bottom
ColumnCells(t, name) == [r \in 1..Len(t.data) |-> At(t, r, name)]

\* C7 amended: in lenient mode the call does not raise, and a formula that
\* refers to an identifier absent from the table is skipped with a warning:
\* the table returned has no column of that formula's name, unless the
\* table passed in had one, which is then left as it was; only the formulas
\* that evaluate contribute a column
C7_Amended ==
  (op = "mutate" /\ args.ignore_errors) =>
    /\ result.ok
    /\ Len(result.val.data) = Len(args.x.data)
    /\ \A c \in NeverResolved(args.x, args.formula_expr) :
         /\ HasCol(result.val, c[1]) <=> HasCol(args.x, c[1])
         /\ HasCol(args.x, c[1]) => ColumnCells(result.val, c[1]) = ColumnCells(args.x, c[1])
         /\ \E w \in Range(result.printed) : w[1] = "formula"

C7_Witness ==
  /\ op = "mutate" /\ args.ignore_errors
  /\ args.formula_expr.kind = "dict"
  /\ args.formula_expr.items = <<<<<<"d", "1">>, <<"a", " ", "+", " ", "c">>>>,
                                 <<<<"d", "2">>, <<"a", "-", "b">>>>>>
  /\ args.x.columns = <<<<"a">>, <<"b">>>>
  /\ result.ok
  /\ result.val.columns = <<<<"a">>, <<"b">>, <<"d", "2">>>>
(***************************************************************************)
(* Properties of the orchestrator                                          *)
(***************************************************************************)
\* the primary matrix was built: lines 161-168 raised nothing
PrimaryBuilt == op = "orchestrate" /\ result.line \notin {162, 163, 164}

\* C1: for a fit with 2 chains of 3 draws, beta of shape 2x2, no random
\* effect and no contrasts, the call completes without raising and returns
\* a draws table with exactly 6 draw-rows for each row index, the two
\* design-matrix labels as its coefficient columns, in order, and in every
\* row the name of the outcome category at the position of its row index
C1_Claim ==
  (/\ op = "orchestrate"
   /\ args.data.fit.rows = EngineRows(2, 3)
   /\ args.data.fit.variables[1].dims = <<2, 2>>
   /\ args.data.model_input.n_random_eff = 0
   /\ args.data.model_input.X = Labels(2)
   /\ args.contrasts = NaN) =>
    /\ result.ok
    /\ \A m \in 1..2 :
         Cardinality({r \in 1..Len(result.val.data) : At(result.val, r, N_M) = Num(m)}) = 6
    /\ \E i \in 1..(Len(result.val.columns) - 1) :
         result.val.columns[i] = Labels(2)[1] /\ result.val.columns[i + 1] = Labels(2)[2]
    /\ \A r \in 1..Len(result.val.data) :
         At(result.val, r, args.data.cell_group)
           = args.data.model_input.y[At(result.val, r, N_M)[2]]

\* the column that holds the values of a long random-effect table
ValueColumn(t) == IF HasCol(t, N_dot_value) THEN N_dot_value ELSE N_value

\* in a long random-effect table the highest level of every row index and
\* (chain, iteration, draw) is minus the sum of the levels below it
SyntheticLevel(t) ==
  \A r \in 1..Len(t.data) :
    LET same == {q \in 1..Len(t.data) :
                   Project(t, q, <<N_C, N_chain__, N_iter__, N_draw__>>)
                     = Project(t, r, <<N_C, N_chain__, N_iter__, N_draw__>>)}
        top  == \A q \in same : At(t, q, N_M)[2] <= At(t, r, N_M)[2]
    IN  top =>
          At(t, r, ValueColumn(t))
            = Num(-SumCells(list([q \in 1..Len(t.data) |->
                      IF q \in same /\ q # r THEN At(t, q, ValueColumn(t)) ELSE Num(0)])))

\* C3: for each declared random-effect group with K levels the orchestrator
\* adds, without raising, a level K + 1 whose value is, for every row and
\* every (chain, iteration, draw), minus the sum of the levels 1..K
C3_Claim ==
  (PrimaryBuilt /\ args.data.model_input.n_random_eff >= 1) =>
    /\ result.line \notin 173..202
    /\ Len(result.random_effects) = args.data.model_input.n_random_eff
    /\ \A i \in 1..Len(result.random_effects) :
         /\ SyntheticLevel(result.random_effects[i])
         /\ \E r \in 1..Len(result.random_effects[i].data) :
              At(result.random_effects[i], r, N_M) = Num(3)

\* C4: each random-effect matrix is left-merged into the primary matrix on
\* (chain, iteration, draw); with matrices of one draw set (one fit) the
\* merges are done and leave the primary matrix's number of rows as it was
C4_Claim ==
  (PrimaryBuilt /\ args.data.model_input.n_random_eff >= 1) =>
    /\ result.merges = args.data.model_input.n_random_eff
    /\ Len(result.draws.data)
         = Len(args.data.fit.rows) * args.data.fit.variables[1].dims[2]
====
